---- MODULE Spec2Model ----
(***************************************************************************)
(* Fallout 4 ESM Patcher (src/esm_patcher.py).                             *)
(*                                                                         *)
(* The model covers the ESMPatcher core (version registry, fingerprint,    *)
(* version resolution, backup / apply / restore), the command line driver  *)
(* main() and the PatcherGUI handlers that drive a patch transaction.      *)
(*                                                                         *)
(* The file system is a function from path strings to file contents.  A    *)
(* content is a record [name, size]: two files are byte-identical iff      *)
(* their contents are equal; name stands for the bytes, size is what       *)
(* os.path.getsize reports.                                                *)
(***************************************************************************)
EXTENDS Integers, Sequences, FiniteSets, TLC

(***************************************************************************)
(* Program constants.                                                      *)
(***************************************************************************)
SIZE_NG == 330777465
SIZE_VR == 330553163
SIZE_OLD == 330745373
PATCHED_SIZE_A == 61741779
PATCHED_SIZE_B == 61598851
TOLERANCE == 1000
MIN_PATCHED_SIZE == 50000000

VERSION_NG == "nextgen"
VERSION_OLD == "1.10.163"

\* Python's None, for values that are otherwise strings.
None == "None"

(***************************************************************************)
(* Bounds of the model.                                                    *)
(***************************************************************************)
\* Number of patch transactions started in one GUI session.
MaxTxns == 2
\* Number of GUI events handled from inside root.update(), that is while
\* a transaction is at a progress checkpoint, in one GUI session.
MaxEvents == 2
\* Number of ESMPatcher method calls a direct caller makes in one run.
MaxCalls == 2
\* Number of restore_backup calls made after one backup and patch.
MaxRestores == 3
\* Number of version resolution calls made in a row on one file.
MaxQueries == 2

(***************************************************************************)
(* Paths and contents.                                                     *)
(***************************************************************************)
ESM == "Fallout4.esm"
BACKUP_SUFFIX == ".backup"
PATCHED_SUFFIX == ".patched"

Paths == {ESM, ESM \o BACKUP_SUFFIX, ESM \o PATCHED_SUFFIX}

Absent == [name |-> "absent", size |-> 0]

File(n, s) == [name |-> n, size |-> s]

\* Files a user can have at the asset path before the program runs: the
\* three registered builds, an already migrated file and an unknown file.
OriginalFiles ==
    { File("orig", SIZE_NG), File("orig", SIZE_VR), File("orig", SIZE_OLD),
      File("orig", PATCHED_SIZE_A + 1), File("orig", 12345) }

\* What the external delta tool can leave at its output path when it
\* completes: sizes around the plausibility threshold and the two sizes a
\* correct decode produces.
ToolOutputSizes ==
    { MIN_PATCHED_SIZE - 1, MIN_PATCHED_SIZE, SIZE_OLD, SIZE_NG }

ToolOutputs == { File("xdelta", s) : s \in ToolOutputSizes }

\* A file whose writer stopped midway: some prefix of the intended bytes.
Partial(c) == File("partial", c.size \div 2)

\* os.path.exists / os.path.getsize
exists(f, p) == p \in DOMAIN f /\ f[p] # Absent
getsize(f, p) == f[p].size

(***************************************************************************)
(* Ordered dictionaries (Python dicts keep insertion order) as sequences   *)
(* of <<key, value>> pairs.                                                *)
(***************************************************************************)
Keys(d) == [i \in 1..Len(d) |-> d[i][1]]
KeySet(d) == { d[i][1] : i \in 1..Len(d) }
HasKey(d, k) == k \in KeySet(d)
Get(d, k) == d[CHOOSE i \in 1..Len(d) : d[i][1] = k][2]
Elems(s) == { s[i] : i \in 1..Len(s) }

(***************************************************************************)
(* Version registry.                                                       *)
(***************************************************************************)
\* The registry with the VR build patchable to 1.10.163 only.
ESM_VERSIONS_VrOneTarget ==
    << <<SIZE_NG, [version |-> "nextgen", display |-> "Next-Gen",
                   patches_to |-> << <<"1.10.163", "fallout4_323025.xdelta">> >>]>>,
       <<SIZE_VR, [version |-> "vr", display |-> "Fallout 4 VR",
                   patches_to |-> << <<"1.10.163", "fallout4_322806.xdelta">> >>]>>,
       <<SIZE_OLD, [version |-> "1.10.163", display |-> "1.10.163 (Old-Gen)",
                    patches_to |-> << <<"nextgen", "fallout4_old_to_ng.xdelta">> >>]>> >>

ESM_VERSIONS ==
    << <<SIZE_NG, [version |-> "nextgen", display |-> "Next-Gen",
                   patches_to |-> << <<"1.10.163", "fallout4_323025.xdelta">> >>]>>,
       <<SIZE_VR, [version |-> "vr", display |-> "Fallout 4 VR",
                   patches_to |-> << <<"1.10.163", "fallout4_322806.xdelta">>,
                                     <<"nextgen", "fallout4_vr_to_ng.xdelta">> >>]>>,
       <<SIZE_OLD, [version |-> "1.10.163", display |-> "1.10.163 (Old-Gen)",
                    patches_to |-> << <<"nextgen", "fallout4_old_to_ng.xdelta">> >>]>> >>

\* The local list known_patched_sizes of detect_esm_version.
known_patched_sizes ==
    << <<PATCHED_SIZE_A, "VR-compatible version (58.9 MB)">>,
       <<PATCHED_SIZE_B, "VR-compatible version (58.7 MB)">> >>

abs(n) == IF n < 0 THEN -n ELSE n

(***************************************************************************)
(* Fingerprint and version resolution.                                     *)
(***************************************************************************)
\* get_file_info describing a missing file as an empty one.
get_file_info_EmptyForMissing(f, file_path) ==
    [exists |-> TRUE, size |-> getsize(f, file_path),
     md5 |-> f[file_path].name, path |-> file_path]

\* get_file_info: the digest is a function of the bytes alone, so the
\* content's name stands for it.
get_file_info(f, file_path) ==
    IF ~exists(f, file_path)
    THEN [exists |-> FALSE]
    ELSE [exists |-> TRUE, size |-> getsize(f, file_path),
          md5 |-> f[file_path].name, path |-> file_path]

\* The lookup in known_patched_sizes by equality, with no window.
PatchedIndex_Exact(file_size) ==
    LET hits == { i \in 1..Len(known_patched_sizes) :
                    file_size = known_patched_sizes[i][1] }
    IN  IF hits = {} THEN 0 ELSE CHOOSE i \in hits : \A j \in hits : i <= j

\* First entry of known_patched_sizes whose window holds file_size, or 0.
PatchedIndex(file_size) ==
    LET hits == { i \in 1..Len(known_patched_sizes) :
                    abs(file_size - known_patched_sizes[i][1]) < TOLERANCE }
    IN  IF hits = {} THEN 0 ELSE CHOOSE i \in hits : \A j \in hits : i <= j

\* detect_esm_version taking a file of unrecognised size for the Next-Gen
\* build.
detect_esm_version_Default(f, esm_path) ==
    LET file_info == get_file_info(f, esm_path) IN
    IF ~file_info.exists
    THEN [exists |-> FALSE, version |-> None, display |-> "File does not exist",
          available_targets |-> << >>, patches |-> << >>]
    ELSE LET file_size == file_info.size
             version_info == Get(ESM_VERSIONS, IF HasKey(ESM_VERSIONS, file_size)
                                               THEN file_size ELSE SIZE_NG)
         IN  IF HasKey(ESM_VERSIONS, file_size) \/ PatchedIndex(file_size) = 0
             THEN [exists |-> TRUE, size |-> file_size,
                   version |-> version_info.version,
                   display |-> version_info.display,
                   available_targets |-> Keys(version_info.patches_to),
                   patches |-> version_info.patches_to]
             ELSE [exists |-> TRUE, size |-> file_size, version |-> "patched",
                   display |-> known_patched_sizes[PatchedIndex(file_size)][2],
                   available_targets |-> << >>, patches |-> << >>]

detect_esm_version(f, esm_path) ==
    LET file_info == get_file_info(f, esm_path) IN
    IF ~file_info.exists
    THEN [exists |-> FALSE, version |-> None, display |-> "File does not exist",
          available_targets |-> << >>, patches |-> << >>]
    ELSE LET file_size == file_info.size IN
         IF HasKey(ESM_VERSIONS, file_size)
         THEN LET version_info == Get(ESM_VERSIONS, file_size) IN
              [exists |-> TRUE, size |-> file_size,
               version |-> version_info.version,
               display |-> version_info.display,
               available_targets |-> Keys(version_info.patches_to),
               patches |-> version_info.patches_to]
         ELSE IF PatchedIndex(file_size) # 0
         THEN [exists |-> TRUE, size |-> file_size, version |-> "patched",
               display |-> known_patched_sizes[PatchedIndex(file_size)][2],
               available_targets |-> << >>, patches |-> << >>]
         ELSE [exists |-> TRUE, size |-> file_size, version |-> None,
               display |-> "Unknown version",
               available_targets |-> << >>, patches |-> << >>]

\* The value get_patch_for_target returns for "no patch" (Python's None).
NoPatch == [patch |-> None]

\* get_patch_for_target returning the first patch of the detected build,
\* whatever the target.
get_patch_for_target_First(f, esm_path, target_version) ==
    LET version_info == detect_esm_version(f, esm_path) IN
    IF version_info.patches # << >>
    THEN [patch |-> version_info.patches[1][2],
          description |-> <<version_info.display, target_version>>,
          source_version |-> version_info.version,
          target_version |-> target_version]
    ELSE NoPatch

get_patch_for_target(f, esm_path, target_version) ==
    LET version_info == detect_esm_version(f, esm_path) IN
    IF HasKey(version_info.patches, target_version)
    THEN [patch |-> Get(version_info.patches, target_version),
          description |-> <<version_info.display, target_version>>,
          source_version |-> version_info.version,
          target_version |-> target_version]
    ELSE NoPatch


(***************************************************************************)
(* Assets directory and dependency check.                                  *)
(***************************************************************************)
XDELTA == "xdelta3.exe"

\* Legacy table: only the patch file names matter to the model.
PATCH_MAPPINGS ==
    << <<SIZE_NG, [patch |-> "fallout4_323025.xdelta", description |-> "Next-Gen"]>>,
       <<SIZE_VR, [patch |-> "fallout4_322806.xdelta", description |-> "Fallout 4 VR"]>> >>

RegistryPatches ==
    UNION { { ESM_VERSIONS[i][2].patches_to[j][2] :
                j \in 1..Len(ESM_VERSIONS[i][2].patches_to) } :
            i \in 1..Len(ESM_VERSIONS) }

AllAssets == {XDELTA} \cup RegistryPatches

\* identify_esm_version reporting a file as already patched only at the
\* exact reference sizes.
identify_esm_version_Exact(f, esm_path) ==
    LET file_info == get_file_info(f, esm_path) IN
    IF ~file_info.exists
    THEN [needs_patch |-> FALSE, msg |-> <<"File does not exist">>,
          patch_info |-> NoPatch]
    ELSE LET file_size == file_info.size IN
         IF HasKey(PATCH_MAPPINGS, file_size)
         THEN LET info == Get(PATCH_MAPPINGS, file_size) IN
              [needs_patch |-> TRUE,
               msg |-> <<"Next-Gen ESM detected", info.description>>,
               patch_info |-> info]
         ELSE IF \E i \in 1..Len(known_patched_sizes) :
                    known_patched_sizes[i][1] = file_size
         THEN [needs_patch |-> FALSE, msg |-> <<"Already patched">>,
               patch_info |-> NoPatch]
         ELSE [needs_patch |-> FALSE, msg |-> <<"Unknown ESM version", file_size>>,
               patch_info |-> NoPatch]

\* ESMPatcher.identify_esm_version (legacy): the tuple (needs patching,
\* message, patch_info).  Its list known_patched_sizes (166-169) and its
\* window test (172) are those of detect_esm_version.
identify_esm_version(f, esm_path) ==
    LET file_info == get_file_info(f, esm_path) IN
    IF ~file_info.exists
    THEN [needs_patch |-> FALSE, msg |-> <<"File does not exist">>,
          patch_info |-> NoPatch]
    ELSE LET file_size == file_info.size IN
         IF HasKey(PATCH_MAPPINGS, file_size)
         THEN LET info == Get(PATCH_MAPPINGS, file_size) IN
              [needs_patch |-> TRUE,
               msg |-> <<"Next-Gen ESM detected", info.description>>,
               patch_info |-> info]
         ELSE IF PatchedIndex(file_size) # 0
         THEN [needs_patch |-> FALSE,
               msg |-> <<"Already patched",
                         known_patched_sizes[PatchedIndex(file_size)][2]>>,
               patch_info |-> NoPatch]
         ELSE [needs_patch |-> FALSE, msg |-> <<"Unknown ESM version", file_size>>,
               patch_info |-> NoPatch]

\* The i-th file verify_dependencies looks for, in the order it looks.
DependencyAt(i) == IF i = 0 THEN XDELTA ELSE PATCH_MAPPINGS[i][2].patch

verify_dependencies(dir) ==
    LET missing_files == { i \in 0..Len(PATCH_MAPPINGS) : DependencyAt(i) \notin dir }
    IN  IF missing_files # {}
        THEN [ok |-> FALSE, msg |-> "Missing required files"]
        ELSE [ok |-> TRUE, msg |-> "All dependencies verified"]

\* Every patch_info dict get_patch_for_target can build.
PatchInfos ==
    UNION { { [patch |-> ESM_VERSIONS[i][2].patches_to[j][2],
               description |-> <<ESM_VERSIONS[i][2].display,
                                 ESM_VERSIONS[i][2].patches_to[j][1]>>,
               source_version |-> ESM_VERSIONS[i][2].version,
               target_version |-> ESM_VERSIONS[i][2].patches_to[j][1]] :
                j \in 1..Len(ESM_VERSIONS[i][2].patches_to) } :
            i \in 1..Len(ESM_VERSIONS) }

(***************************************************************************)
(* State.                                                                  *)
(***************************************************************************)
VARIABLES
    fs,               \* the file system: path -> content
    assets,           \* names of the files present in the assets directory
    mode,             \* who drives ESMPatcher: "api", "cli" or "gui"
    stack,            \* activation records of the running transactions
    backup_created,   \* ESMPatcher.backup_created
    ret,              \* what the last ESMPatcher method call returned
    calls,            \* number of calls made (api) or transactions started (gui)
    events,           \* gui: number of events handled inside root.update()
    argv_target,      \* CLI: the --target argument, or None
    exit_code,        \* CLI: process exit code, -1 while running
    selected_file,    \* PatcherGUI.selected_file
    patch_info,       \* PatcherGUI.patch_info
    version_info,     \* PatcherGUI.version_info
    target_var,       \* PatcherGUI.target_var
    target_radio_buttons, \* targets of the radio buttons shown
    patch_button,     \* state of the Apply Patch button
    restore_button    \* state of the Restore Backup button

gui == <<selected_file, patch_info, version_info, target_var,
         target_radio_buttons, patch_button, restore_button>>
cli == <<argv_target, exit_code>>
vars == <<fs, assets, mode, stack, backup_created, ret, calls, events, cli, gui>>


(***************************************************************************)
(* File operations.  An operation that can fail for reasons outside the    *)
(* program (disk full, file in use) yields every outcome it can have.      *)
(***************************************************************************)
remove(f, p) == [f EXCEPT ![p] = Absent]

\* shutil.copy2(src, dst): the copy completes; or it raises before dst is
\* opened (always so when src is missing); or it raises while writing,
\* leaving dst truncated.
copy2(f, src, dst) ==
    IF ~exists(f, src)
    THEN { [fs |-> f, raised |-> TRUE] }
    ELSE { [fs |-> [f EXCEPT ![dst] = f[src]], raised |-> FALSE],
           [fs |-> f, raised |-> TRUE],
           [fs |-> [f EXCEPT ![dst] = Partial(f[src])], raised |-> TRUE] }

MSG_CANCELLED == "Backup cancelled by user"
MSG_NO_BACKUP == "No backup file found"
MSG_RESTORED == "Successfully restored from backup"
MSG_TIMEOUT == "Patching process timed out"
MSG_TOOL_FAILED == "xdelta3 failed with return code"
MSG_NOT_CREATED == "Patched file was not created"
MSG_TOO_SMALL == "Patched file is too small"
MSG_APPLIED == "Patch applied successfully!"
MSG_EXCEPTION == "str(e)"

\* create_backup copying over an existing backup without asking.
create_backup_Overwrites(f, esm_path) ==
    { [fs |-> c.fs, success |-> ~c.raised,
       msg |-> IF c.raised THEN MSG_EXCEPTION ELSE esm_path \o BACKUP_SUFFIX,
       asked |-> exists(f, esm_path \o BACKUP_SUFFIX), response |-> FALSE,
       backup_path |-> esm_path \o BACKUP_SUFFIX] :
      c \in copy2(f, esm_path, esm_path \o BACKUP_SUFFIX) }

(***************************************************************************)
(* ESMPatcher.create_backup: the set of its outcomes on file system f.     *)
(* asked / response record the overwrite dialog.                           *)
(***************************************************************************)
create_backup(f, esm_path) ==
    LET backup_path == esm_path \o BACKUP_SUFFIX
        asked == exists(f, backup_path)
        copies(response) ==
            { [fs |-> c.fs, success |-> ~c.raised,
               msg |-> IF c.raised THEN MSG_EXCEPTION ELSE backup_path,
               asked |-> asked, response |-> response,
               backup_path |-> backup_path] :
              c \in copy2(f, esm_path, backup_path) }
    IN  IF asked
        THEN { [fs |-> f, success |-> FALSE, msg |-> MSG_CANCELLED,
                asked |-> TRUE, response |-> FALSE,
                backup_path |-> backup_path] }
             \cup copies(TRUE)
        ELSE copies(FALSE)

\* restore_backup reporting success without copying when the asset exists.
restore_backup_SkipsExisting(f, esm_path) ==
    IF ~exists(f, esm_path \o BACKUP_SUFFIX)
    THEN { [fs |-> f, success |-> FALSE, msg |-> MSG_NO_BACKUP] }
    ELSE IF exists(f, esm_path)
    THEN { [fs |-> f, success |-> TRUE, msg |-> MSG_RESTORED] }
    ELSE { [fs |-> c.fs, success |-> ~c.raised,
            msg |-> IF c.raised THEN MSG_EXCEPTION ELSE MSG_RESTORED] :
           c \in copy2(f, esm_path \o BACKUP_SUFFIX, esm_path) }

\* restore_backup moving the backup onto the asset, not copying it.
restore_backup_MovesBackup(f, esm_path) ==
    IF ~exists(f, esm_path \o BACKUP_SUFFIX)
    THEN { [fs |-> f, success |-> FALSE, msg |-> MSG_NO_BACKUP] }
    ELSE { [fs |-> [f EXCEPT ![esm_path] = f[esm_path \o BACKUP_SUFFIX],
                             ![esm_path \o BACKUP_SUFFIX] = Absent],
            success |-> TRUE, msg |-> MSG_RESTORED] }

(***************************************************************************)
(* ESMPatcher.restore_backup: the set of its outcomes on file system f.    *)
(***************************************************************************)
restore_backup(f, esm_path) ==
    LET backup_path == esm_path \o BACKUP_SUFFIX IN
    IF ~exists(f, backup_path)
    THEN { [fs |-> f, success |-> FALSE, msg |-> MSG_NO_BACKUP] }
    ELSE \* os.remove(esm_path) raises, or the copy runs on the file
         \* system without the asset
         (IF exists(f, esm_path)
          THEN { [fs |-> f, success |-> FALSE, msg |-> MSG_EXCEPTION] }
          ELSE {})
         \cup
         { [fs |-> c.fs, success |-> ~c.raised,
            msg |-> IF c.raised THEN MSG_EXCEPTION ELSE MSG_RESTORED] :
           c \in copy2(remove(f, esm_path), backup_path, esm_path) }

(***************************************************************************)
(* Activation records.  One record holds a driver's position (main or      *)
(* PatcherGUI.apply_patch, or a direct caller) together with the locals    *)
(* of the ESMPatcher.apply_patch call it makes.  Fields start_esm,         *)
(* call_esm, wrote, phase, runs and backed_up are history: they record     *)
(* what happened (the asset when the transaction started and when          *)
(* apply_patch was called, what the tool wrote, where apply_patch          *)
(* returned, how often the tool ran, whether create_backup succeeded)      *)
(* and are read by no action.                                              *)
(***************************************************************************)
NewFrame(fn, pc, f) ==
    [fn |-> fn, pc |-> pc,
     esm_path |-> None, patch_info |-> NoPatch, cb |-> FALSE,
     rc |-> "none", patched_size |-> 0,
     success |-> FALSE, msg |-> None,
     raised |-> FALSE,
     start_esm |-> f[ESM], call_esm |-> f[ESM], wrote |-> Absent,
     phase |-> "none", runs |-> 0, backed_up |-> FALSE]

Top == stack[Len(stack)]
SetTop(fr) == [stack EXCEPT ![Len(stack)] = fr]
At(pcs) == stack # << >> /\ Top.pc \in pcs

\* Entering ESMPatcher.apply_patch(esm_path, patch_info, progress_callback)
Call_apply_patch(fr, f, path, info, callback) ==
    [fr EXCEPT !.pc = "ap_enter", !.esm_path = path, !.patch_info = info,
               !.cb = callback, !.rc = "none", !.patched_size = 0,
               !.call_esm = f[path], !.wrote = Absent, !.phase = "none",
               !.runs = 0]

\* return False/True, msg from apply_patch
Return(fr, ok, m, ph) ==
    [fr EXCEPT !.pc = "ap_ret", !.success = ok, !.msg = m, !.phase = ph]

\* The except clauses leaving the temp output where it is.
Cleanup_KeepsTemp(f, temp_output) == f

\* The two except clauses of apply_patch: discard the temp output if any.
Cleanup(f, temp_output) ==
    IF exists(f, temp_output) THEN remove(f, temp_output) ELSE f

\* An exception leaves apply_patch: the caller gets no (bool, str).
Raise(fr, ph) == [fr EXCEPT !.pc = "ap_raised", !.raised = TRUE, !.phase = ph]

\* An except clause of apply_patch (lines 343-346, 348-352) entered with
\* temp_output bound: the outcomes <<file system, activation record>>.  The
\* clause removes the temp output if there is one and returns failure; the
\* os.remove in the clause is outside any try, so when it fails (file in
\* use) its exception leaves apply_patch and the temp output stays.
Handler(f, fr, m, ph) ==
    { <<Cleanup(f, fr.esm_path \o PATCHED_SUFFIX), Return(fr, FALSE, m, ph)>> }
    \cup (IF exists(f, fr.esm_path \o PATCHED_SUFFIX)
          THEN { <<f, Raise(fr, ph)>> }
          ELSE {})


(***************************************************************************)
(* ESMPatcher.apply_patch, one action per step.  The steps act on the      *)
(* innermost activation record.                                            *)
(***************************************************************************)
TempOutput(fr) == fr.esm_path \o PATCHED_SUFFIX

\* What the tool leaves at its output path when it is stopped or fails.
PartialOutput == File("partial", 4096)

\* Next position after a progress checkpoint, with and without a callback.
Checkpoint(fr, at_callback, after) ==
    [fr EXCEPT !.pc = IF fr.cb THEN at_callback ELSE after]

\* lines 286-303: build the command.  With patch_info None the subscript
\* raises before temp_output is bound, and the handler's own use of
\* temp_output raises out of apply_patch.
ApEnter ==
    /\ At({"ap_enter"})
    /\ stack' = SetTop(IF Top.patch_info = NoPatch
                       THEN [Top EXCEPT !.pc = "ap_raised", !.raised = TRUE,
                                        !.phase = "args"]
                       ELSE Checkpoint(Top, "ap_cb30", "ap_run"))
    /\ UNCHANGED <<fs, assets, mode, backup_created, ret, calls, events, cli, gui>>

\* The outcomes of subprocess.run(cmd, timeout=120): <<rc, temp content>>.
\* The tool reads the source and the patch and writes only its output.
ToolOutcomes(f, dir, fr) ==
    LET temp == f[TempOutput(fr)]
        stopped == {temp, PartialOutput}
    IN  IF XDELTA \notin dir
        THEN { <<"oserror", temp>> }
        ELSE { <<"oserror", temp>> }
             \cup { <<"timeout", t>> : t \in stopped }
             \cup { <<"fail", t>> : t \in stopped }
             \cup (IF exists(f, fr.esm_path) /\ fr.patch_info.patch \in dir
                   THEN { <<"ok", t>> : t \in ToolOutputs \cup {temp} }
                   ELSE {})

\* lines 306-311
ApRun ==
    /\ At({"ap_run"})
    /\ \E o \in ToolOutcomes(fs, assets, Top) :
          /\ fs' = [fs EXCEPT ![TempOutput(Top)] = o[2]]
          /\ stack' = SetTop([Top EXCEPT !.pc = "ap_rc", !.rc = o[1],
                                         !.runs = @ + 1,
                                         !.wrote = IF o[2] = fs[TempOutput(Top)]
                                                   THEN Absent ELSE o[2]])
    /\ UNCHANGED <<assets, mode, backup_created, ret, calls, events, cli, gui>>

\* lines 313-321 and the handlers at 343-352 for what subprocess.run raised
ApReturnCode ==
    /\ At({"ap_rc"})
    /\ CASE Top.rc = "oserror" ->
              \E o \in Handler(fs, Top, MSG_EXCEPTION, "invoke") :
                  fs' = o[1] /\ stack' = SetTop(o[2])
         [] Top.rc = "timeout" ->
              \E o \in Handler(fs, Top, MSG_TIMEOUT, "timeout") :
                  fs' = o[1] /\ stack' = SetTop(o[2])
         [] Top.rc = "fail" ->
              /\ fs' = fs
              /\ stack' = SetTop(Return(Top, FALSE, MSG_TOOL_FAILED, "exit"))
         [] OTHER ->
              /\ fs' = fs
              /\ stack' = SetTop(Checkpoint(Top, "ap_cb70", "ap_verify"))
    /\ UNCHANGED <<assets, mode, backup_created, ret, calls, events, cli, gui>>

\* The size test with the threshold one byte lower.
TooSmall_OneLower(patched_size) == patched_size < MIN_PATCHED_SIZE - 1

\* line 328
TooSmall(patched_size) == patched_size < MIN_PATCHED_SIZE

\* ApVerify discarding the asset, not the temp output, on a small output.
ApVerify_RemovesAsset ==
    /\ At({"ap_verify"})
    /\ LET temp_output == TempOutput(Top)
           patched_size == getsize(fs, temp_output)
       IN  IF ~exists(fs, temp_output)
           THEN /\ fs' = fs
                /\ stack' = SetTop(Return(Top, FALSE, MSG_NOT_CREATED, "missing"))
           ELSE IF TooSmall(patched_size)
           THEN /\ fs' = remove(fs, Top.esm_path)
                /\ stack' = SetTop(Return([Top EXCEPT !.patched_size = patched_size],
                                          FALSE, MSG_TOO_SMALL, "small"))
           ELSE /\ fs' = fs
                /\ stack' = SetTop(Checkpoint([Top EXCEPT !.patched_size = patched_size],
                                              "ap_cb90", "ap_remove"))
    /\ UNCHANGED <<assets, mode, backup_created, ret, calls, events, cli, gui>>

\* lines 323-333; when the os.remove of line 329 raises, the handler at
\* 348-352 runs
ApVerify ==
    /\ At({"ap_verify"})
    /\ LET temp_output == TempOutput(Top)
           patched_size == getsize(fs, temp_output)
       IN  IF ~exists(fs, temp_output)
           THEN /\ fs' = fs
                /\ stack' = SetTop(Return(Top, FALSE, MSG_NOT_CREATED, "missing"))
           ELSE IF TooSmall(patched_size)
           THEN \/ /\ fs' = remove(fs, temp_output)
                   /\ stack' = SetTop(Return([Top EXCEPT !.patched_size = patched_size],
                                             FALSE, MSG_TOO_SMALL, "small"))
                \/ \E o \in Handler(fs, [Top EXCEPT !.patched_size = patched_size],
                                     MSG_EXCEPTION, "small") :
                       fs' = o[1] /\ stack' = SetTop(o[2])
           ELSE /\ fs' = fs
                /\ stack' = SetTop(Checkpoint([Top EXCEPT !.patched_size = patched_size],
                                              "ap_cb90", "ap_remove"))
    /\ UNCHANGED <<assets, mode, backup_created, ret, calls, events, cli, gui>>

\* line 336, os.remove(esm_path), and the handler at 348-352 when it raises
ApRemove ==
    /\ At({"ap_remove"})
    /\ \/ /\ exists(fs, Top.esm_path)
          /\ fs' = remove(fs, Top.esm_path)
          /\ stack' = SetTop([Top EXCEPT !.pc = "ap_rename"])
       \/ \E o \in Handler(fs, Top, MSG_EXCEPTION, "remove") :
              fs' = o[1] /\ stack' = SetTop(o[2])
    /\ UNCHANGED <<assets, mode, backup_created, ret, calls, events, cli, gui>>

\* ApRename with the output copied into place instead of renamed.
ApRename_KeepsTemp ==
    /\ At({"ap_rename"})
    /\ \/ /\ exists(fs, TempOutput(Top))
          /\ fs' = [fs EXCEPT ![Top.esm_path] = fs[TempOutput(Top)]]
          /\ stack' = SetTop(Return(Top, TRUE, MSG_APPLIED, "done"))
       \/ \E o \in Handler(fs, Top, MSG_EXCEPTION, "rename") :
              fs' = o[1] /\ stack' = SetTop(o[2])
    /\ UNCHANGED <<assets, mode, backup_created, ret, calls, events, cli, gui>>

\* lines 337-341, os.rename(temp_output, esm_path), and the handler when it
\* raises
ApRename ==
    /\ At({"ap_rename"})
    /\ \/ /\ exists(fs, TempOutput(Top))
          /\ fs' = [fs EXCEPT ![Top.esm_path] = fs[TempOutput(Top)],
                              ![TempOutput(Top)] = Absent]
          /\ stack' = SetTop(Return(Top, TRUE, MSG_APPLIED, "done"))
       \/ \E o \in Handler(fs, Top, MSG_EXCEPTION, "rename") :
              fs' = o[1] /\ stack' = SetTop(o[2])
    /\ UNCHANGED <<assets, mode, backup_created, ret, calls, events, cli, gui>>

ApplyPatchStep ==
    ApEnter \/ ApRun \/ ApReturnCode \/ ApVerify \/ ApRemove \/ ApRename


(***************************************************************************)
(* What a direct caller gets back from an ESMPatcher method.  before is    *)
(* the file system the call started on and seq numbers the call.           *)
(***************************************************************************)
NoRet ==
    [fn |-> "none", seq |-> 0, success |-> FALSE, msg |-> None,
     before |-> << >>, asked |-> FALSE, response |-> FALSE, raised |-> FALSE]

Ret_create_backup(o, f, n) ==
    [fn |-> "create_backup", seq |-> n, success |-> o.success, msg |-> o.msg,
     before |-> f, asked |-> o.asked, response |-> o.response,
     raised |-> FALSE]

Ret_restore_backup(o, f, n) ==
    [fn |-> "restore_backup", seq |-> n, success |-> o.success, msg |-> o.msg,
     before |-> f, asked |-> FALSE, response |-> FALSE, raised |-> FALSE]

Ret_apply_patch(fr, n) ==
    [fn |-> "apply_patch", seq |-> n, success |-> fr.success, msg |-> fr.msg,
     before |-> << >>, asked |-> FALSE, response |-> FALSE,
     raised |-> fr.raised]

(***************************************************************************)
(* A direct caller of the ESMPatcher methods (the class is the public      *)
(* interface of the core): any sequence of calls on one asset path.        *)
(***************************************************************************)
ApiCreateBackup ==
    /\ mode = "api" /\ stack = << >> /\ calls < MaxCalls
    /\ \E o \in create_backup(fs, ESM) :
          /\ fs' = o.fs
          /\ backup_created' = (backup_created \/ o.success)
          /\ ret' = Ret_create_backup(o, fs, calls + 1)
    /\ calls' = calls + 1
    /\ UNCHANGED <<assets, mode, stack, events, cli, gui>>

ApiRestoreBackup ==
    /\ mode = "api" /\ stack = << >> /\ calls < MaxCalls
    /\ \E o \in restore_backup(fs, ESM) :
          /\ fs' = o.fs
          /\ ret' = Ret_restore_backup(o, fs, calls + 1)
    /\ calls' = calls + 1
    /\ UNCHANGED <<assets, mode, stack, backup_created, events, cli, gui>>

ApiApplyPatch ==
    /\ mode = "api" /\ stack = << >> /\ calls < MaxCalls
    /\ \E info \in PatchInfos :
          stack' = << Call_apply_patch(NewFrame("api", "ap_enter", fs),
                                       fs, ESM, info, FALSE) >>
    /\ calls' = calls + 1
    /\ UNCHANGED <<fs, assets, mode, backup_created, ret, events, cli, gui>>

ApiReturn ==
    /\ mode = "api" /\ At({"ap_ret", "ap_raised"})
    /\ ret' = Ret_apply_patch(Top, calls)
    /\ stack' = << >>
    /\ UNCHANGED <<fs, assets, mode, backup_created, calls, events, cli, gui>>

(***************************************************************************)
(* main(), command line mode.                                              *)
(***************************************************************************)
Exit(fr) == [fr EXCEPT !.pc = "exit"]

\* MainDecision taking the first available target when several are
\* available and none was named.
MainDecision_AutoSelectsFirst(f, dir, target_arg) ==
    IF target_arg \notin {None, "1.10.163", "nextgen"} THEN 1
    ELSE IF ~exists(f, ESM) THEN 1
    ELSE IF ~verify_dependencies(dir).ok THEN 1
    ELSE LET vi == detect_esm_version(f, ESM)
             target_version ==
                 IF target_arg = None /\ Len(vi.available_targets) >= 1
                 THEN vi.available_targets[1] ELSE target_arg
         IN  IF vi.available_targets = << >> THEN 0
             ELSE IF target_version \notin Elems(vi.available_targets) THEN 1
             ELSE IF get_patch_for_target(f, ESM, target_version) = NoPatch THEN 1
             ELSE -1

\* lines 901-991: arguments, path, dependencies, version and target.
\* The result is the exit code, or -1 to go on to the backup.
MainDecision(f, dir, target_arg) ==
    IF target_arg \notin {None, "1.10.163", "nextgen"} THEN 1
    ELSE IF ~exists(f, ESM) THEN 1
    ELSE IF ~verify_dependencies(dir).ok THEN 1
    ELSE LET vi == detect_esm_version(f, ESM)
             target_version ==
                 IF target_arg = None /\ Len(vi.available_targets) = 1
                 THEN vi.available_targets[1] ELSE target_arg
         IN  IF vi.available_targets = << >> THEN 0
             ELSE IF target_version = None THEN 0
             ELSE IF target_version \notin Elems(vi.available_targets) THEN 1
             ELSE IF get_patch_for_target(f, ESM, target_version) = NoPatch THEN 1
             ELSE -1

MainTarget(f, target_arg) ==
    LET vi == detect_esm_version(f, ESM)
    IN  IF target_arg = None THEN vi.available_targets[1] ELSE target_arg

MainStart ==
    /\ mode = "cli" /\ At({"m_start"})
    /\ LET code == MainDecision(fs, assets, argv_target) IN
       IF code >= 0
       THEN /\ stack' = SetTop(Exit(Top))
            /\ exit_code' = code
       ELSE /\ stack' = SetTop([Top EXCEPT
                   !.pc = "m_backup", !.esm_path = ESM,
                   !.patch_info = get_patch_for_target(fs, ESM,
                                      MainTarget(fs, argv_target))])
            /\ exit_code' = exit_code
    /\ UNCHANGED <<fs, assets, mode, backup_created, ret, calls, events, argv_target, gui>>

\* lines 993-1003
MainBackup ==
    /\ mode = "cli" /\ At({"m_backup"})
    /\ \E o \in create_backup(fs, Top.esm_path) :
          /\ fs' = o.fs
          /\ backup_created' = (backup_created \/ o.success)
          /\ IF o.success
             THEN /\ stack' = SetTop(Call_apply_patch(
                                  [Top EXCEPT !.backed_up = TRUE],
                                  o.fs, Top.esm_path, Top.patch_info, FALSE))
                  /\ exit_code' = exit_code
             ELSE /\ stack' = SetTop(Exit(Top))
                  /\ exit_code' = 1
    /\ UNCHANGED <<assets, mode, ret, calls, events, argv_target, gui>>

\* MainFinish restoring the backup by itself when apply_patch failed.
MainFinish_Restores ==
    /\ mode = "cli" /\ At({"ap_ret", "ap_raised"})
    /\ LET code == IF Top.pc = "ap_ret" /\ Top.success THEN 0 ELSE 1 IN
       /\ stack' = SetTop([Top EXCEPT !.pc = "exit"])
       /\ exit_code' = code
       /\ IF code = 0 THEN fs' = fs
          ELSE \E o \in restore_backup(fs, Top.esm_path) : fs' = o.fs
    /\ UNCHANGED <<assets, mode, backup_created, ret, calls, events,
                   argv_target, gui>>

\* lines 1005-1009, and 1019-1022 when apply_patch raised
MainFinish ==
    /\ mode = "cli" /\ At({"ap_ret", "ap_raised"})
    /\ LET code == IF Top.pc = "ap_ret" /\ Top.success THEN 0 ELSE 1 IN
       /\ stack' = SetTop([Top EXCEPT !.pc = "exit"])
       /\ exit_code' = code
    /\ UNCHANGED <<fs, assets, mode, backup_created, ret, calls, events,
                   argv_target, gui>>


(***************************************************************************)
(* PatcherGUI.  Handlers run from the Tk event loop: from mainloop() when  *)
(* no handler is active, and from root.update() inside update_progress     *)
(* while a transaction is at a progress checkpoint.                        *)
(***************************************************************************)
NoVersionInfo == [version |-> "unset"]

UpdatePcs == {"ap_cb30", "ap_cb70", "ap_cb90", "g_up10", "g_up100", "g_up0"}

\* Where execution continues when update_progress returns.
AfterUpdate(pc) ==
    CASE pc = "ap_cb30" -> "ap_run"
      [] pc = "ap_cb70" -> "ap_verify"
      [] pc = "ap_cb90" -> "ap_remove"
      [] pc = "g_up10" -> "g_backup"
      [] pc = "g_up100" -> "g_result"
      [] pc = "g_up0" -> "g_finally"

EventLoop ==
    mode = "gui" /\ (IF stack = << >> THEN TRUE ELSE Top.pc \in UpdatePcs)

\* analyze_file keeping the patch_info of the previous selection.
analyze_file_KeepsPatch(f, file_path, restore_now) ==
    LET file_info == get_file_info(f, file_path)
        vi == detect_esm_version(f, file_path)
    IN  [selected_file |-> file_path,
         patch_info |-> patch_info,
         version_info |-> IF file_info.exists THEN vi ELSE NoVersionInfo,
         target_var |-> "none",
         target_radio_buttons |->
             IF file_info.exists THEN vi.available_targets ELSE << >>,
         patch_button |-> "disabled",
         restore_button |->
             IF ~file_info.exists THEN restore_now
             ELSE IF exists(f, file_path \o BACKUP_SUFFIX) THEN "normal"
             ELSE "disabled"]

\* PatcherGUI.analyze_file(file_path), with clear_target_options and
\* populate_target_options: the widget state it leaves.
analyze_file(f, file_path, restore_now) ==
    LET file_info == get_file_info(f, file_path)
        vi == detect_esm_version(f, file_path)
    IN  [selected_file |-> file_path,
         patch_info |-> NoPatch,
         version_info |-> IF file_info.exists THEN vi ELSE NoVersionInfo,
         target_var |-> "none",
         target_radio_buttons |->
             IF file_info.exists THEN vi.available_targets ELSE << >>,
         patch_button |-> "disabled",
         restore_button |->
             IF ~file_info.exists THEN restore_now
             ELSE IF exists(f, file_path \o BACKUP_SUFFIX) THEN "normal"
             ELSE "disabled"]

SetGui(g) ==
    /\ selected_file' = g.selected_file
    /\ patch_info' = g.patch_info
    /\ version_info' = g.version_info
    /\ target_var' = g.target_var
    /\ target_radio_buttons' = g.target_radio_buttons
    /\ patch_button' = g.patch_button
    /\ restore_button' = g.restore_button

\* An event is handled: from mainloop, or from root.update() of the
\* transaction at a checkpoint (counted).
HandleEvent ==
    /\ EventLoop
    /\ IF stack = << >> THEN events' = events
       ELSE events < MaxEvents /\ events' = events + 1

\* browse_folder (and auto_detect): the asset is found and analysed.
GuiBrowse ==
    /\ HandleEvent
    /\ exists(fs, ESM)
    /\ SetGui(analyze_file(fs, ESM, restore_button))
    /\ UNCHANGED <<fs, assets, mode, stack, backup_created, ret, calls, cli>>

\* A radio button is clicked: on_target_selected
GuiSelectTarget ==
    /\ HandleEvent
    /\ \E target \in Elems(target_radio_buttons) :
          /\ target_var' = target
          /\ IF target # "none" /\ selected_file # None
             THEN LET info == get_patch_for_target(fs, selected_file, target) IN
                  /\ patch_info' = info
                  /\ patch_button' = IF info # NoPatch THEN "normal" ELSE "disabled"
             ELSE UNCHANGED <<patch_info, patch_button>>
    /\ UNCHANGED <<fs, assets, mode, stack, backup_created, ret, calls, cli,
                   selected_file, version_info, target_radio_buttons,
                   restore_button>>

\* Apply Patch is clicked: PatcherGUI.apply_patch, lines 744-762, with the
\* confirmation answered yes (answered no, the handler changes nothing).
GuiClickApply ==
    /\ HandleEvent
    /\ patch_button = "normal"
    /\ selected_file # None /\ patch_info # NoPatch
    /\ calls < MaxTxns
    /\ calls' = calls + 1
    /\ patch_button' = "disabled"
    /\ restore_button' = "disabled"
    /\ stack' = Append(stack, NewFrame("gui_apply", "g_up10", fs))
    /\ UNCHANGED <<fs, assets, mode, backup_created, ret, cli, selected_file,
                   patch_info, version_info, target_var, target_radio_buttons>>

\* update_progress returns to the transaction that called it
UpdateReturn ==
    /\ mode = "gui" /\ At(UpdatePcs)
    /\ stack' = SetTop([Top EXCEPT !.pc = AfterUpdate(Top.pc)])
    /\ UNCHANGED <<fs, assets, mode, backup_created, ret, calls, events, cli, gui>>

\* GuiBackup going on to apply_patch whatever create_backup returned.
GuiBackup_IgnoresFailure ==
    /\ mode = "gui" /\ At({"g_backup"})
    /\ \E o \in create_backup(fs, selected_file) :
          /\ fs' = o.fs
          /\ backup_created' = (backup_created \/ o.success)
          /\ stack' = SetTop(
                Call_apply_patch([Top EXCEPT !.backed_up = o.success], o.fs,
                                 selected_file, patch_info, TRUE))
    /\ UNCHANGED <<assets, mode, ret, calls, events, cli, gui>>

\* lines 767-778
GuiBackup ==
    /\ mode = "gui" /\ At({"g_backup"})
    /\ \E o \in create_backup(fs, selected_file) :
          /\ fs' = o.fs
          /\ backup_created' = (backup_created \/ o.success)
          /\ stack' = SetTop(
                IF o.success
                THEN Call_apply_patch([Top EXCEPT !.backed_up = TRUE], o.fs,
                                      selected_file, patch_info, TRUE)
                ELSE [Top EXCEPT !.pc = "g_up0"])
    /\ UNCHANGED <<assets, mode, ret, calls, events, cli, gui>>

\* apply_patch returned (line 780 follows) or raised (the finally follows)
GuiApplyReturned ==
    /\ mode = "gui" /\ At({"ap_ret", "ap_raised"})
    /\ stack' = SetTop([Top EXCEPT !.pc = IF Top.pc = "ap_ret" THEN "g_up100"
                                          ELSE "g_up0"])
    /\ UNCHANGED <<fs, assets, mode, backup_created, ret, calls, events, cli, gui>>

\* PatcherGUI.restore_backup, lines 810-828, with the confirmation
\* answered yes
GuiRestore ==
    /\ selected_file # None
    /\ \E o \in restore_backup(fs, selected_file) :
          /\ fs' = o.fs
          /\ IF o.success
             THEN SetGui(analyze_file(o.fs, selected_file, restore_button))
             ELSE UNCHANGED gui

\* Restore Backup is clicked
GuiClickRestore ==
    /\ HandleEvent
    /\ restore_button = "normal"
    /\ GuiRestore
    /\ UNCHANGED <<assets, mode, stack, backup_created, ret, calls, cli>>

\* lines 782-796
GuiResult ==
    /\ mode = "gui" /\ At({"g_result"})
    /\ \/ /\ Top.success
          /\ SetGui(analyze_file(fs, selected_file, restore_button))
          /\ fs' = fs
       \/ /\ ~Top.success
          /\ UNCHANGED <<fs, gui>>
       \/ /\ ~Top.success
          /\ backup_created
          /\ GuiRestore
    /\ stack' = SetTop([Top EXCEPT !.pc = "g_up0"])
    /\ UNCHANGED <<assets, mode, backup_created, ret, calls, events, cli>>

\* lines 798-806, and the handler returns
GuiFinally ==
    /\ mode = "gui" /\ At({"g_finally"})
    /\ patch_button' = IF patch_info # NoPatch THEN "normal" ELSE patch_button
    /\ restore_button' = IF exists(fs, selected_file \o BACKUP_SUFFIX)
                         THEN "normal" ELSE restore_button
    /\ stack' = SubSeq(stack, 1, Len(stack) - 1)
    /\ UNCHANGED <<fs, assets, mode, backup_created, ret, calls, events, cli,
                   selected_file, patch_info, version_info, target_var,
                   target_radio_buttons>>

(***************************************************************************)
(* Initial states and specifications.                                      *)
(***************************************************************************)
\* A backup left by an earlier run.
InitialBackups == {Absent, File("orig", SIZE_VR), File("orig", SIZE_NG)}

InitialFs ==
    { (ESM :> a) @@ (ESM \o BACKUP_SUFFIX :> b) @@ (ESM \o PATCHED_SUFFIX :> Absent) :
        a \in OriginalFiles \cup {Absent}, b \in InitialBackups }

InitialAssets ==
    { AllAssets, AllAssets \ {XDELTA}, AllAssets \ {"fallout4_323025.xdelta"},
      AllAssets \ {"fallout4_old_to_ng.xdelta"} }

InitCommon ==
    /\ fs \in InitialFs
    /\ assets \in InitialAssets
    /\ backup_created = FALSE
    /\ ret = NoRet
    /\ calls = 0
    /\ events = 0
    /\ exit_code = -1
    /\ selected_file = None
    /\ patch_info = NoPatch
    /\ version_info = NoVersionInfo
    /\ target_var = "none"
    /\ target_radio_buttons = << >>
    /\ patch_button = "disabled"
    /\ restore_button = "disabled"

InitApi ==
    /\ InitCommon
    /\ mode = "api"
    /\ stack = << >>
    /\ argv_target = None

InitCli ==
    /\ InitCommon
    /\ mode = "cli"
    /\ stack = << NewFrame("main", "m_start", fs) >>
    /\ argv_target \in {None, "1.10.163", "nextgen", "vr"}

\* PatcherGUI.__init__ closes the window when verify_dependencies fails.
InitGui ==
    /\ InitCommon
    /\ mode = "gui"
    /\ verify_dependencies(assets).ok
    /\ stack = << >>
    /\ argv_target = None

NextApi ==
    \/ ApiCreateBackup \/ ApiRestoreBackup \/ ApiApplyPatch \/ ApiReturn
    \/ ApEnter \/ ApRun \/ ApReturnCode \/ ApVerify \/ ApRemove \/ ApRename

NextCli ==
    \/ MainStart \/ MainBackup \/ MainFinish
    \/ ApEnter \/ ApRun \/ ApReturnCode \/ ApVerify \/ ApRemove \/ ApRename

NextGui ==
    \/ GuiBrowse \/ GuiSelectTarget \/ GuiClickApply \/ GuiClickRestore
    \/ UpdateReturn \/ GuiBackup \/ GuiApplyReturned \/ GuiResult \/ GuiFinally
    \/ ApEnter \/ ApRun \/ ApReturnCode \/ ApVerify \/ ApRemove \/ ApRename

(***************************************************************************)
(* A caller that makes a backup, applies a patch and then restores the     *)
(* backup, again and again.                                                *)
(***************************************************************************)
InitTrip ==
    /\ InitCommon
    /\ mode = "trip"
    /\ stack = << NewFrame("trip", "t_backup", fs) >>
    /\ argv_target = None

TripBackup ==
    /\ mode = "trip" /\ At({"t_backup"})
    /\ \E o \in create_backup(fs, ESM), info \in PatchInfos :
          /\ fs' = o.fs
          /\ backup_created' = (backup_created \/ o.success)
          /\ stack' = SetTop(
                IF o.success
                THEN Call_apply_patch([Top EXCEPT !.backed_up = TRUE], o.fs,
                                      ESM, info, FALSE)
                ELSE [Top EXCEPT !.pc = "t_end"])
    /\ UNCHANGED <<assets, mode, ret, calls, events, cli, gui>>

TripRestore ==
    /\ mode = "trip" /\ At({"ap_ret", "ap_raised", "t_restore"})
    /\ calls < MaxRestores
    /\ \E o \in restore_backup(fs, ESM) :
          /\ fs' = o.fs
          /\ ret' = Ret_restore_backup(o, fs, calls + 1)
    /\ calls' = calls + 1
    /\ stack' = SetTop([Top EXCEPT !.pc = "t_restore"])
    /\ UNCHANGED <<assets, mode, backup_created, events, cli, gui>>

NextTrip ==
    \/ TripBackup \/ TripRestore
    \/ ApEnter \/ ApRun \/ ApReturnCode \/ ApVerify \/ ApRemove \/ ApRename

(***************************************************************************)
(* A caller of the read-only methods get_file_info, detect_esm_version and *)
(* get_patch_for_target: any calls in a row on one file.  ret holds the    *)
(* method called, its target argument, the value returned and the file     *)
(* system the call started on.                                             *)
(***************************************************************************)
\* File sizes the methods are called on: the registry keys and their
\* neighbours, the migrated reference sizes with the edges of their
\* windows, and sizes far from all of them.
QuerySizes ==
    {0, 12345, MIN_PATCHED_SIZE,
     SIZE_NG - 1, SIZE_NG, SIZE_NG + 1, SIZE_VR, SIZE_OLD}
    \cup UNION { { r - TOLERANCE - 1, r - TOLERANCE, r - TOLERANCE + 1, r - 1, r,
                   r + 1, r + TOLERANCE - 1, r + TOLERANCE, r + TOLERANCE + 1 } :
                 r \in {PATCHED_SIZE_A, PATCHED_SIZE_B} }

QueryFs ==
    { (ESM :> a) @@ (ESM \o BACKUP_SUFFIX :> Absent) @@ (ESM \o PATCHED_SUFFIX :> Absent) :
        a \in {Absent} \cup { File("orig", n) : n \in QuerySizes } }

\* Target arguments: the registered identities, None and other strings.
QueryTargets == {"1.10.163", "nextgen", "vr", "patched", None, ""}

Ret_query(fn, target, value, f, n) ==
    [fn |-> fn, seq |-> n, success |-> FALSE, msg |-> None,
     before |-> f, asked |-> FALSE, response |-> FALSE, raised |-> FALSE,
     arg |-> target, value |-> value]

InitQuery ==
    /\ fs \in QueryFs
    /\ assets = AllAssets
    /\ backup_created = FALSE
    /\ ret = Ret_query("none", None, NoPatch, << >>, 0)
    /\ calls = 0
    /\ events = 0
    /\ exit_code = -1
    /\ selected_file = None
    /\ patch_info = NoPatch
    /\ version_info = NoVersionInfo
    /\ target_var = "none"
    /\ target_radio_buttons = << >>
    /\ patch_button = "disabled"
    /\ restore_button = "disabled"
    /\ mode = "query"
    /\ stack = << >>
    /\ argv_target = None

QueryInfo ==
    /\ mode = "query" /\ calls < MaxQueries
    /\ ret' = Ret_query("get_file_info", None, get_file_info(fs, ESM), fs, calls + 1)
    /\ calls' = calls + 1
    /\ UNCHANGED <<fs, assets, mode, stack, backup_created, events, cli, gui>>

\* QueryDetect with a detect_esm_version that records in the patcher that
\* it ran.
QueryDetect_Records ==
    /\ mode = "query" /\ calls < MaxQueries
    /\ ret' = Ret_query("detect_esm_version", None, detect_esm_version(fs, ESM),
                        fs, calls + 1)
    /\ calls' = calls + 1
    /\ backup_created' = TRUE
    /\ UNCHANGED <<fs, assets, mode, stack, events, cli, gui>>

QueryDetect ==
    /\ mode = "query" /\ calls < MaxQueries
    /\ ret' = Ret_query("detect_esm_version", None, detect_esm_version(fs, ESM),
                        fs, calls + 1)
    /\ calls' = calls + 1
    /\ UNCHANGED <<fs, assets, mode, stack, backup_created, events, cli, gui>>

QueryPatch ==
    /\ mode = "query" /\ calls < MaxQueries
    /\ \E target \in QueryTargets :
          ret' = Ret_query("get_patch_for_target", target,
                           get_patch_for_target(fs, ESM, target), fs, calls + 1)
    /\ calls' = calls + 1
    /\ UNCHANGED <<fs, assets, mode, stack, backup_created, events, cli, gui>>

QueryIdentify ==
    /\ mode = "query" /\ calls < MaxQueries
    /\ ret' = Ret_query("identify_esm_version", None,
                        identify_esm_version(fs, ESM), fs, calls + 1)
    /\ calls' = calls + 1
    /\ UNCHANGED <<fs, assets, mode, stack, backup_created, events, cli, gui>>

NextQuery == QueryInfo \/ QueryDetect \/ QueryPatch \/ QueryIdentify

SpecApi == InitApi /\ [][NextApi]_vars
SpecQuery == InitQuery /\ [][NextQuery]_vars
SpecTrip == InitTrip /\ [][NextTrip]_vars
SpecCli == InitCli /\ [][NextCli]_vars
SpecGui == InitGui /\ [][NextGui]_vars

Init == InitCli \/ InitGui
Next == NextCli \/ NextGui
Spec == Init /\ [][Next]_vars

(***************************************************************************)
(* The drivers with a user who replaces the asset file, from outside the   *)
(* program, after the patch was resolved and before it is applied: in the  *)
(* GUI after a target was selected and while no handler runs, on the       *)
(* command line after get_patch_for_target (line 986) and before           *)
(* create_backup (line 995, which can wait on a dialog).                   *)
(***************************************************************************)
ReplacementFiles ==
    { File("replaced", SIZE_NG), File("replaced", SIZE_VR),
      File("replaced", 12345) }

ExternalReplace ==
    /\ IF mode = "gui" THEN stack = << >> /\ patch_info # NoPatch
       ELSE mode = "cli" /\ At({"m_backup"})
    /\ fs[ESM] \notin ReplacementFiles
    /\ \E c \in ReplacementFiles : fs' = [fs EXCEPT ![ESM] = c]
    /\ UNCHANGED <<assets, mode, stack, backup_created, ret, calls, events, cli, gui>>

SpecExt == Init /\ [][Next \/ ExternalReplace]_vars


(***************************************************************************)
(* Properties.                                                             *)
(***************************************************************************)
Frames == { stack[i] : i \in 1..Len(stack) }
BackupOf(path) == path \o BACKUP_SUFFIX
TempOf(path) == path \o PATCHED_SUFFIX

\* The transaction of fr ran create_backup and then apply_patch, and
\* apply_patch has returned.
TransactionEnded(fr) == fr.backed_up /\ fr.pc \in {"ap_ret", "exit"}

\* The tool exited 0 and wrote an output of plausible size.
ToolWrotePlausible(fr) ==
    fr.rc = "ok" /\ fr.wrote # Absent /\ fr.wrote.size >= MIN_PATCHED_SIZE

\* The asset is the tool's output, of plausible size; no temp output is
\* left; the backup holds what the asset held when the transaction began.
PatchedAndBackedUp(fr) ==
    /\ exists(fs, fr.esm_path)
    /\ fs[fr.esm_path] = fr.wrote
    /\ getsize(fs, fr.esm_path) >= MIN_PATCHED_SIZE
    /\ ~exists(fs, TempOf(fr.esm_path))
    /\ exists(fs, BackupOf(fr.esm_path))
    /\ fs[BackupOf(fr.esm_path)] = fr.start_esm

PreReplacementPhases == {"invoke", "exit", "timeout", "missing", "small"}

\* C2: when apply_patch returns failure from a phase before the
\* replacement step (the tool could not be run, exited non-zero, timed
\* out, left no output or a too small one), the asset path holds what it
\* held when apply_patch was called, and still exists if it existed.
C2_FailureLeavesAsset ==
    \A fr \in Frames :
        (fr.pc = "ap_ret" /\ ~fr.success /\ fr.phase \in PreReplacementPhases)
            => /\ fs[fr.esm_path] = fr.call_esm
               /\ (fr.call_esm # Absent => exists(fs, fr.esm_path))

C2_Witness ==
    \E fr \in Frames :
        /\ fr.pc = "ap_ret" /\ ~fr.success /\ fr.phase = "small"
        /\ fr.call_esm # Absent /\ fs[fr.esm_path] = fr.call_esm


\* C3 as claimed: while a command line or GUI transaction is running, the
\* content the asset had when the transaction started is at the asset
\* path or at the backup path.
C3_OriginalKept ==
    \A fr \in Frames :
        (fr.fn \in {"main", "gui_apply"} /\ fr.start_esm # Absent)
            => \/ fs[ESM] = fr.start_esm
               \/ fs[BackupOf(ESM)] = fr.start_esm

ApplyPcs ==
    {"ap_enter", "ap_cb30", "ap_run", "ap_rc", "ap_cb70", "ap_verify",
     "ap_cb90", "ap_remove", "ap_rename", "ap_ret", "ap_raised"}

\* In a transaction: apply_patch is entered, and the tool run, only after
\* create_backup succeeded; verification comes after a tool run that
\* exited 0; replacement after a verified output.
PhasesInOrder(fr) ==
    /\ fr.pc \in ApplyPcs \cup {"g_up100", "g_result"} => fr.backed_up
    /\ fr.runs > 0 => fr.backed_up
    /\ fr.pc \in {"ap_cb70", "ap_verify"} => (fr.runs > 0 /\ fr.rc = "ok")
    /\ (fr.pc \in {"ap_cb90", "ap_remove", "ap_rename"}
          \/ fr.phase \in {"remove", "rename", "done"})
         => (fr.runs > 0 /\ fr.rc = "ok" /\ ~TooSmall(fr.patched_size))
    /\ ~fr.backed_up => fr.runs = 0

\* A step in which the create_backup of a transaction returns failure.
BackupFails ==
    /\ At({"m_backup", "g_backup"})
    /\ Len(stack') = Len(stack)
    /\ stack'[Len(stack)].pc # Top.pc
    /\ ~stack'[Len(stack)].backed_up

\* C4: in every command line and GUI transaction the phases come in the
\* order backup, tool, verification, replacement; the tool runs only after
\* create_backup succeeded in that transaction; and a create_backup that
\* fails leaves the asset as it was and ends the transaction without
\* apply_patch.
C4_BackupFirst ==
    /\ [](\A fr \in Frames : fr.fn \in {"main", "gui_apply"} => PhasesInOrder(fr))
    /\ [][BackupFails => /\ fs'[ESM] = fs[ESM]
                         /\ stack'[Len(stack)].pc \in {"exit", "g_up0"}]_vars

C4_Witness ==
    \E fr \in Frames :
        /\ fr.fn = "gui_apply" /\ fr.pc = "g_up0" /\ ~fr.backed_up
        /\ exists(fs, ESM)

\* C5 as claimed: when the tool exits non-zero, apply_patch returns
\* failure with the tool-failure reason, the asset is as it was at the
\* call and no temp output is left.
C5_NoTempAfterToolFailure ==
    \A fr \in Frames :
        (fr.pc = "ap_ret" /\ fr.rc = "fail" /\ fr.call_esm # Absent)
            => /\ ~fr.success /\ fr.msg = MSG_TOOL_FAILED
               /\ fs[fr.esm_path] = fr.call_esm
               /\ ~exists(fs, TempOf(fr.esm_path))

AtReplacement(fr) ==
    \/ fr.pc \in {"ap_cb90", "ap_remove", "ap_rename"}
    \/ fr.phase \in {"remove", "rename", "done"}

\* apply_patch returned after a tool run that exited 0 and left an output
\* of the given size at verification (0: no output).
VerifiedAndReturned(fr) == fr.pc = "ap_ret" /\ fr.rc = "ok"

Rejected(fr) ==
    /\ ~fr.success
    /\ fr.phase \in {"missing", "small"}
    /\ ~exists(fs, TempOf(fr.esm_path))
    /\ fs[fr.esm_path] = fr.call_esm

Returned(fn) == mode = "api" /\ stack = << >> /\ ret.fn = fn /\ ret.seq = calls

\* C8: create_backup on an existing backup without authorization fails as
\* cancelled and leaves asset and backup as they were; a backup that
\* existed is changed only after the overwrite was authorized; and the
\* only path create_backup writes is the asset path plus ".backup", which
\* it returns on success.
C8_NoSilentOverwrite ==
    Returned("create_backup") =>
        /\ (ret.asked /\ ~ret.response)
              => (~ret.success /\ ret.msg = MSG_CANCELLED /\ fs = ret.before)
        /\ ret.asked = exists(ret.before, ESM \o ".backup")
        /\ (exists(ret.before, ESM \o ".backup")
              /\ fs[ESM \o ".backup"] # ret.before[ESM \o ".backup"])
              => ret.response
        /\ \A p \in Paths \ {ESM \o ".backup"} : fs[p] = ret.before[p]
        /\ ret.success => (ret.msg = ESM \o ".backup" /\ fs[ret.msg] = ret.before[ESM])

C8_Witness ==
    /\ Returned("create_backup")
    /\ ret.asked /\ ~ret.response /\ ~ret.success
    /\ exists(fs, ESM) /\ fs[BackupOf(ESM)] # fs[ESM]

\* C9 as claimed: after create_backup returns, either it succeeded and
\* the backup is a complete copy of the asset, or it failed and the backup
\* path holds what it held before (no partial backup, an earlier backup
\* intact).
C9_BackupAtomic ==
    Returned("create_backup") =>
        \/ /\ ret.success
           /\ exists(fs, BackupOf(ESM))
           /\ fs[BackupOf(ESM)] = ret.before[ESM]
        \/ /\ ~ret.success
           /\ fs[BackupOf(ESM)] = ret.before[BackupOf(ESM)]

\* C10: restore_backup without a backup fails with the no-backup reason
\* and changes nothing; with a backup and a successful copy the asset is
\* identical to the backup, whether or not it existed, and the backup is
\* as it was.
C10_Restore ==
    Returned("restore_backup") =>
        /\ ~exists(ret.before, BackupOf(ESM))
              => (~ret.success /\ ret.msg = MSG_NO_BACKUP /\ fs = ret.before)
        /\ (exists(ret.before, BackupOf(ESM)) /\ ret.success)
              => /\ fs[ESM] = ret.before[BackupOf(ESM)]
                 /\ fs[BackupOf(ESM)] = ret.before[BackupOf(ESM)]
                 /\ exists(fs, BackupOf(ESM))
        /\ fs[BackupOf(ESM)] = ret.before[BackupOf(ESM)]

C10_Witness ==
    /\ Returned("restore_backup")
    /\ ret.success
    /\ ~exists(ret.before, ESM)
    /\ fs[ESM] = fs[BackupOf(ESM)]


\* C20 as claimed: whatever I/O or subprocess failure happens, a call of
\* create_backup, apply_patch or restore_backup by a direct caller ends
\* with a (False, reason) result: no exception leaves the method.
C20_NoPropagation ==
    /\ \A fr \in Frames : fr.pc # "ap_raised" /\ ~fr.raised
    /\ ~ret.raised
    /\ (ret.fn # "none" /\ ~ret.success) => ret.msg # None


\* A restore_backup call of the round trip that returns success right
\* after a restore_backup call that returned success.
RestoreAgain ==
    /\ At({"t_restore"}) /\ ret.success
    /\ calls' = calls + 1 /\ ret'.success

RestoreClicked ==
    /\ EventLoop /\ restore_button = "normal" /\ stack' = stack

\* The step is the end of a GUI transaction whose apply_patch returned
\* failure, where the restore was offered and accepted.
RestoreAccepted ==
    /\ At({"g_result"}) /\ ~Top.success /\ Top.backed_up /\ backup_created

\* C12: the asset is changed only by the replacement step of apply_patch
\* or by a restore, and a restore is run only by a click on Restore
\* Backup or by the offer a GUI transaction makes after apply_patch
\* returned failure; no other step of a transaction, and no step of the
\* command line driver, restores.
C12_RestoreOnRequest ==
    [][fs'[ESM] # fs[ESM] =>
         \/ At({"ap_remove", "ap_rename"})
         \/ /\ RestoreClicked \/ RestoreAccepted
            /\ \E o \in restore_backup(fs, ESM) : fs' = o.fs]_vars

C12_Witness ==
    \E fr \in Frames :
        /\ fr.fn = "gui_apply" /\ fr.pc = "g_up0" /\ events = 0
        /\ ~fr.success /\ fr.phase = "rename"
        /\ exists(fs, ESM) /\ fs[ESM] = fr.start_esm


\* The last call was method fn, made on a file of the given kind.
Asked(fn) == mode = "query" /\ ret.fn = fn
AskedSize == getsize(ret.before, ESM)
AskedExists == exists(ret.before, ESM)
RegistrySizes == {SIZE_NG, SIZE_VR, SIZE_OLD}

\* C13: get_patch_for_target returns a patch exactly when the target is
\* one of the available_targets detect_esm_version reports for the file,
\* the patch file is the one the registry names for the file's size and
\* the target, and otherwise the result is None.
C13_PatchIffTarget ==
    Asked("get_patch_for_target") =>
        LET vi == detect_esm_version(ret.before, ESM)
            member == ret.arg \in Elems(vi.available_targets)
        IN  /\ (ret.value # NoPatch) <=> member
            /\ member =>
                 /\ AskedExists /\ HasKey(ESM_VERSIONS, AskedSize)
                 /\ ret.value.patch
                      = Get(Get(ESM_VERSIONS, AskedSize).patches_to, ret.arg)
                 /\ ret.value.target_version = ret.arg
            /\ ~member => ret.value = NoPatch

C13_Witness ==
    /\ Asked("get_patch_for_target")
    /\ AskedSize = SIZE_VR /\ ret.arg = "nextgen"
    /\ ret.value.patch = "fallout4_vr_to_ng.xdelta"

\* C14: on an existing file whose size is a key of the registry,
\* detect_esm_version returns the identity, label and targets of that
\* entry: nextgen, "Next-Gen", {1.10.163}; vr, "Fallout 4 VR",
\* {1.10.163, nextgen}; 1.10.163, "1.10.163 (Old-Gen)", {nextgen}.
C14_RegistryEntries ==
    (Asked("detect_esm_version") /\ AskedExists /\ AskedSize \in RegistrySizes) =>
        /\ ret.value.exists /\ ret.value.size = AskedSize
        /\ Len(ret.value.available_targets)
             = Cardinality(Elems(ret.value.available_targets))
        /\ KeySet(ret.value.patches) = Elems(ret.value.available_targets)
        /\ AskedSize = SIZE_NG =>
             /\ ret.value.version = "nextgen" /\ ret.value.display = "Next-Gen"
             /\ Elems(ret.value.available_targets) = {"1.10.163"}
        /\ AskedSize = SIZE_VR =>
             /\ ret.value.version = "vr" /\ ret.value.display = "Fallout 4 VR"
             /\ Elems(ret.value.available_targets) = {"1.10.163", "nextgen"}
        /\ AskedSize = SIZE_OLD =>
             /\ ret.value.version = "1.10.163"
             /\ ret.value.display = "1.10.163 (Old-Gen)"
             /\ Elems(ret.value.available_targets) = {"nextgen"}

C14_Witness ==
    /\ Asked("detect_esm_version") /\ AskedSize = SIZE_VR
    /\ ret.value.version = "vr"
    /\ Len(ret.value.available_targets) = 2

\* detect_esm_version classified the file as migrated, with the label of
\* reference size r and nothing to patch to.
Migrated(r) ==
    /\ ret.value.exists
    /\ ret.value.version = "patched"
    /\ ret.value.display = Get(known_patched_sizes, r)
    /\ ret.value.available_targets = << >>
    /\ ret.value.patches = << >>

\* C15 as claimed: a size s with 0 < |s - r| <= 1000 for a migrated
\* reference size r, not a registry key, is classified as migrated.
C15_WindowClosed ==
    Asked("detect_esm_version") =>
        \A r \in {PATCHED_SIZE_A, PATCHED_SIZE_B} :
            (AskedExists /\ AskedSize \notin RegistrySizes
               /\ 0 < abs(AskedSize - r) /\ abs(AskedSize - r) <= TOLERANCE)
              => Migrated(r)

\* C15 amended: a size s with 0 < |s - r| < 1000 for a migrated reference
\* size r, not a registry key, is classified as migrated; at a distance of
\* exactly 1000 the file is classified as unknown.
C15_WindowOpen ==
    Asked("detect_esm_version") =>
        \A r \in {PATCHED_SIZE_A, PATCHED_SIZE_B} :
            /\ (AskedExists /\ AskedSize \notin RegistrySizes
                  /\ 0 < abs(AskedSize - r) /\ abs(AskedSize - r) < TOLERANCE)
                 => Migrated(r)
            /\ (AskedExists /\ abs(AskedSize - r) = TOLERANCE)
                 => ret.value.version = None

C15_Witness ==
    /\ Asked("detect_esm_version")
    /\ AskedSize = PATCHED_SIZE_B + TOLERANCE - 1
    /\ Migrated(PATCHED_SIZE_B)

\* C17: for a path that does not exist, get_file_info returns exists =
\* false and nothing else, detect_esm_version returns exists = false with
\* no version, no targets and no patches, and get_patch_for_target returns
\* None for every target; each as a value.
C17_MissingFile ==
    (mode = "query" /\ ret.fn # "none" /\ ~AskedExists) =>
        /\ ret.fn = "get_file_info" => ret.value = [exists |-> FALSE]
        /\ ret.fn = "detect_esm_version" =>
             /\ ~ret.value.exists
             /\ ret.value.version = None
             /\ ret.value.available_targets = << >>
             /\ ret.value.patches = << >>
        /\ ret.fn = "get_patch_for_target" => ret.value = NoPatch
        /\ ~ret.raised

C17_Witness ==
    /\ Asked("get_patch_for_target") /\ ~AskedExists
    /\ ret.arg = "nextgen" /\ ret.value = NoPatch

\* A call of one of the three read-only methods.
QueryStep == mode = "query" /\ calls' = calls + 1

RegisteredPatches(f, path) ==
    { p[2] : p \in Elems(detect_esm_version(f, path).patches) }

\* C19 as claimed: whenever a command line or GUI transaction is about to
\* run the tool, the patch file it passes is one the registry names for
\* the size the asset has at that moment.
C19_PatchMatchesAsset ==
    \A fr \in Frames :
        (fr.fn \in {"main", "gui_apply"} /\ fr.pc = "ap_run")
            => fr.patch_info.patch \in RegisteredPatches(fs, fr.esm_path)

\* detect_esm_version classifies content c as unknown.
Unknown(c) ==
    /\ c # Absent
    /\ c.size \notin RegistrySizes
    /\ \A r \in {PATCHED_SIZE_A, PATCHED_SIZE_B} : abs(c.size - r) >= TOLERANCE

MSG_INTERRUPTED == "Cancelled by user"

\* lines 1016-1018: print("\nCancelled by user"); sys.exit(0)
MainInterrupt ==
    /\ mode = "cli" /\ stack # << >>
    /\ Top.pc # "exit"
    /\ stack' = SetTop([Top EXCEPT !.pc = "exit", !.msg = MSG_INTERRUPTED])
    /\ exit_code' = 0
    /\ UNCHANGED <<fs, assets, mode, backup_created, ret, calls, events,
                   argv_target, gui>>

SpecInt == InitCli /\ [][NextCli \/ MainInterrupt]_vars

\* The run of main in frame fr ended with nothing to do: the file is
\* already of a final version (958-963) or offers several targets and
\* none was named (966-977).
NoActionNeeded(fr) ==
    /\ fr.phase = "none" /\ ~fr.backed_up
    /\ fs[ESM] = fr.start_esm
    /\ MainDecision(fs, assets, argv_target) = 0

\* C21: a run of main exits with code 0 only when the patch succeeded or
\* no action was needed; a run that failed or was interrupted exits with
\* another code.
C21_ZeroOnlyOnSuccess ==
    \A fr \in Frames :
        (fr.fn = "main" /\ fr.pc = "exit" /\ exit_code = 0)
            => \/ fr.backed_up /\ fr.success /\ fr.msg # MSG_INTERRUPTED
               \/ NoActionNeeded(fr) /\ fr.msg # MSG_INTERRUPTED

\* The transitions main or the GUI has offered and resolved: the patch_info
\* of a started transaction, and the one the GUI holds.
ResolvedPatches ==
    { fr.patch_info : fr \in { g \in Frames : g.fn = "main" } } \cup {patch_info}

\* C22: verify_dependencies succeeds only if xdelta3.exe and the patch file
\* of every transition of ESM_VERSIONS are in the assets directory, so the
\* patch file of every transition resolved for the user is there.
C22_EveryArtifactVerified ==
    /\ verify_dependencies(assets).ok => ({XDELTA} \cup RegistryPatches) \subseteq assets
    /\ \A info \in ResolvedPatches : info # NoPatch => info.patch \in assets

\* A transaction of the GUI is in flight: PatcherGUI.apply_patch has
\* started and its finally block has not completed.
InFlight == mode = "gui" /\ stack # << >>

\* The step is the handling of an event by root.update() inside a
\* transaction.
EventInTransaction == InFlight /\ events' # events

\* C23: while a transaction of the GUI is in flight no second Apply Patch
\* and no Restore starts, and the selected file and the patch info do not
\* change by an event, although root.update() handles pending events.
C23_OneTransaction ==
    [][EventInTransaction =>
          /\ Len(stack') = Len(stack)
          /\ fs' = fs
          /\ selected_file' = selected_file
          /\ patch_info' = patch_info]_vars

(***************************************************************************)
(* The command line run with its progress conditions.  Every step of main  *)
(* and of apply_patch is taken once it can be: they are sequential code,   *)
(* and subprocess.run returns after 120 s at the latest (ApRun has the     *)
(* timeout among its outcomes).  The one step that waits for somebody else *)
(* is create_backup on an existing backup: messagebox.askyesno (lines      *)
(* 265-272) returns when the user answers, which nothing guarantees.       *)
(***************************************************************************)
BackupUnprompted == MainBackup /\ ~exists(fs, BackupOf(ESM))

SpecCliLive ==
    /\ InitCli /\ [][NextCli]_vars
    /\ WF_vars(MainStart) /\ WF_vars(BackupUnprompted) /\ WF_vars(MainFinish)
    /\ WF_vars(ApEnter) /\ WF_vars(ApRun) /\ WF_vars(ApReturnCode)
    /\ WF_vars(ApVerify) /\ WF_vars(ApRemove) /\ WF_vars(ApRename)

\* C24: every transaction that was started reaches a terminal outcome and
\* never stays in an intermediate state; the core waits for no
\* interactive input.
C24_TransactionTerminates ==
    At({"m_backup"}) ~> At({"exit"})

\* apply_patch of the transaction fr removed the asset (line 336) and its
\* os.rename (line 337) then failed.
RenameFailed(fr) == fr.backed_up /\ fr.phase = "rename"

\* C25: when os.rename fails after os.remove removed the asset, apply_patch
\* returns a failure result and does not raise, the backup still holds the
\* content from before the transaction, and a restore_backup that
\* succeeds afterwards puts that content back at the asset path.
C25_RenameFailureReported ==
    \A fr \in Frames :
        RenameFailed(fr) =>
            /\ fr.pc # "ap_raised"
            /\ ~fr.success
            /\ fs[BackupOf(ESM)] = fr.start_esm
            /\ (ret.fn = "restore_backup" /\ ret.success) => fs[ESM] = fr.start_esm

\* The step is a call of create_backup that returned success.
BackupTaken ==
    /\ calls' = calls + 1
    /\ ret'.fn = "create_backup" /\ ret'.success

\* C26: the backup changes only in a successful create_backup, which makes
\* it the content the asset has at that moment: so whenever a backup
\* exists it is the asset of the most recent successful create_backup (or
\* the backup found at the start).
C26_BackupIsLastSnapshot ==
    [][fs'[BackupOf(ESM)] # fs[BackupOf(ESM)]
          => BackupTaken /\ fs'[BackupOf(ESM)] = fs[ESM]]_vars

\* C27: Apply Patch is enabled only if a file is selected and patch_info
\* is a patch that get_patch_for_target returns for the selected file and
\* the selected target; after a file was analysed, and until a target is
\* selected again, patch_info is empty and the button is disabled.
C27_ApplyEnabled ==
    mode = "gui" =>
        /\ patch_button = "normal" =>
              /\ selected_file = ESM
              /\ patch_info \in PatchInfos
              /\ patch_info.target_version = target_var
              /\ target_var \in Elems(target_radio_buttons)
        /\ target_var = "none" =>
              patch_info = NoPatch /\ patch_button = "disabled"

\* A transaction has failed and ended, and its finally block enabled Apply
\* Patch again.
C27_Witness ==
    /\ mode = "gui" /\ stack = << >> /\ calls > 0
    /\ patch_button = "normal"

\* The targets detect_esm_version lists for the asset the run of main in
\* fr started on.
AvailableTargets(fr) ==
    Elems(detect_esm_version([fs EXCEPT ![ESM] = fr.start_esm], ESM).available_targets)

\* The explicit --target, or the single available target when none is
\* given (None when none is given and there is not exactly one).
EffectiveTarget(fr) ==
    IF argv_target = None /\ Cardinality(AvailableTargets(fr)) = 1
    THEN CHOOSE t \in AvailableTargets(fr) : TRUE
    ELSE argv_target

\* main got as far as detect_esm_version (line 955) and has exited.
ExitedAfterDetection(fr) ==
    /\ fr.fn = "main" /\ fr.pc = "exit"
    /\ argv_target \in {None, "1.10.163", "nextgen"}
    /\ fr.start_esm # Absent
    /\ verify_dependencies(assets).ok

SeveralUnnamed(fr) == argv_target = None /\ Cardinality(AvailableTargets(fr)) > 1
Unavailable(fr) == argv_target # None /\ argv_target \notin AvailableTargets(fr)

\* No file is created, changed or removed by a run whose effective target
\* is not among the available targets.
MutationGated ==
    [][(mode = "cli" /\ fs' # fs) => EffectiveTarget(Top) \in AvailableTargets(Top)]_vars

\* C28 as stated: no mutation unless the effective target is available;
\* several targets and no --target exit 0; a --target that is not
\* available for the detected version exits 1.
C28_AsClaimed ==
    /\ MutationGated
    /\ [](\A fr \in Frames : ExitedAfterDetection(fr) =>
              /\ SeveralUnnamed(fr) => exit_code = 0
              /\ Unavailable(fr) => exit_code = 1)

\* C28 amended: the same, but a --target that is not available exits 1
\* only when the detected version has targets at all; when it has none
\* (already patched, or unknown) the run exits 0 whatever --target is.
C28_TargetGate ==
    /\ MutationGated
    /\ [](\A fr \in Frames : ExitedAfterDetection(fr) =>
              /\ SeveralUnnamed(fr) => exit_code = 0
              /\ (Unavailable(fr) /\ AvailableTargets(fr) # {}) => exit_code = 1
              /\ AvailableTargets(fr) = {} => exit_code = 0)

\* A run on a Next-Gen asset with --target nextgen has exited with 1 and
\* left the files alone.
C28_Witness ==
    \E fr \in Frames :
        /\ ExitedAfterDetection(fr) /\ fs[ESM] = fr.start_esm
        /\ Unavailable(fr) /\ AvailableTargets(fr) # {} /\ exit_code = 1

\* C29: on every file identify_esm_version reports "needs patching" with
\* patch file P exactly when detect_esm_version lists the target "1.10.163"
\* with patch file P, reports "already patched" exactly when
\* detect_esm_version classifies the file as "patched", and reports a
\* missing file exactly when detect_esm_version has exists false.
C29_LegacyAgrees ==
    Asked("identify_esm_version") =>
        LET legacy == ret.value
            d == detect_esm_version(ret.before, ESM)
        IN  /\ legacy.needs_patch <=> HasKey(d.patches, "1.10.163")
            /\ legacy.needs_patch =>
                  legacy.patch_info.patch = Get(d.patches, "1.10.163")
            /\ ~legacy.needs_patch => legacy.patch_info = NoPatch
            /\ legacy.msg[1] = "Already patched" <=> d.version = "patched"
            /\ legacy.msg[1] = "File does not exist" <=> ~d.exists
            /\ ~d.exists <=> ~AskedExists

\* identify_esm_version was called on a VR file, or on a file 999 bytes
\* below a reference size.
C29_Witness ==
    /\ Asked("identify_esm_version")
    /\ \/ AskedSize = SIZE_VR /\ ret.value.needs_patch
       \/ AskedSize = PATCHED_SIZE_B - TOLERANCE + 1
          /\ ret.value.msg[1] = "Already patched"

====
